---------------------------- MODULE Spec2Model ----------------------------
(***************************************************************************)
(* A model of asn_block.py and iptables_asn_block.py: the range parser,    *)
(* the CIDR summarizer, the firewall backend selector, the rule applier    *)
(* and the block / unblock orchestrator.                                   *)
(*                                                                         *)
(* Scaling: an address of IP version v4 has V4Bits bits and one of v6 has  *)
(* V6Bits bits (32 and 128 in the program).  An address string of the      *)
(* dataset is the decimal numeral of the address.  A line of a dataset is  *)
(* a sequence of one-character strings.                                    *)
(***************************************************************************)
EXTENDS Integers, Sequences, FiniteSets, TLC

VARIABLES
    \* ---- iprange_to_cidr, run as the generator loop it is
    version_c,      \* IP version of the two addresses
    start_c,        \* the start address given
    first_int,      \* cursor of summarize_address_range
    last_int,       \* the end address
    nets,           \* networks yielded so far, <<network, prefixlen>>
    pc_c,           \* "call", "loop", "done", "ValueError", "off"
    \* ---- parse_dataset, run as the generator it is
    script_p,       \* which script's parse_dataset
    lines_p,        \* the lines of the file
    asn_p,          \* the target ASN
    i_p,            \* lines consumed so far
    out_p,          \* the (start, end) pairs yielded so far
    pc_p,           \* "run", "done", "IndexError", "ValueError", "off"
    \* ---- the machine the scripts run on
    script,         \* the script that is installed
    services,       \* the services systemctl reports active
    files,          \* FILES: version -> [exists, lines]
    fw,             \* ipsets, iptables rules, firewalld zone, ufw rules
    \* ---- one run of main()
    pc,             \* where the run is
    reason,         \* why the run ended as it did
    action,         \* args.action
    asn,            \* args.asn (0: not given)
    dry_run,        \* args.dry_run
    firewall,       \* detect_firewall_backend()'s result
    vi,             \* index in ["v4", "v6"] of the loop
    todo,           \* CIDRs the loop at pc has still to handle
    cidr_list,      \* cidr_list of the iteration
    issued,         \* external commands run so far in this run
    printed,        \* [DRY-RUN] lines printed so far in this run
    \* ---- bookkeeping
    runs,           \* invocations so far
    nfail,          \* commands that failed for a reason outside the model
    missing0,       \* whether a dataset file was absent when the run began
    fw0,            \* the firewall state when the run began
    ufw_passed,     \* version -> the last cidr_list given to apply_ufw_rule
                    \* and the dataset lines it was made from
    pattern         \* "fresh", "blocks" (live block runs of TargetAsn only),
                    \* "unblocked" (those, then one live unblock), "other"

cidrVars == <<version_c, start_c, first_int, last_int, nets, pc_c>>
parseVars == <<script_p, lines_p, asn_p, i_p, out_p, pc_p>>

envVars == <<script, services, files, fw>>
runVars == <<pc, reason, action, asn, dry_run, firewall, vi, todo, cidr_list,
             issued, printed>>
bookVars == <<runs, nfail, missing0, fw0, ufw_passed, pattern>>
orchVars == <<envVars, runVars, bookVars>>

vars == <<cidrVars, parseVars, orchVars>>

Scripts == {"asn_block", "iptables_asn_block"}

\* ------------------------------------------------------------------ bounds
V4Bits == 3
V6Bits == 4

Versions == <<"v4", "v6">>

max_prefixlen(version) == IF version = "v4" THEN V4Bits ELSE V6Bits

Pow2(n) == 2 ^ n

ALL_ONES(version) == Pow2(max_prefixlen(version)) - 1

Min(a, b) == IF a <= b THEN a ELSE b

\* ------------------------------------------------- CIDR summarizer (pure)
\* int.bit_length()
RECURSIVE bit_length(_)
bit_length(n) == IF n = 0 THEN 0 ELSE 1 + bit_length(n \div 2)

\* number of zero bits on the right of a positive number
RECURSIVE righthand_zeros(_)
righthand_zeros(number) ==
    IF number % 2 = 1 THEN 0 ELSE 1 + righthand_zeros(number \div 2)

\* ipaddress._count_righthand_zero_bits
count_righthand_zero_bits(number, bits) ==
    IF number = 0 THEN bits ELSE Min(bits, righthand_zeros(number))

\* nbits with the distance to the end left out
nbits_ignores_end(first, last, ip_bits) ==
    count_righthand_zero_bits(first, ip_bits)

\* nbits with the length of the rest taken one short
nbits_one_short(first, last, ip_bits) ==
    Min(count_righthand_zero_bits(first, ip_bits),
        IF last = first THEN 0 ELSE bit_length(last - first) - 1)

\* the host bits of the next network of the loop
nbits(first, last, ip_bits) ==
    Min(count_righthand_zero_bits(first, ip_bits),
        bit_length(last - first + 1) - 1)

\* ipaddress.summarize_address_range(first, last) for first <= last, the
\* networks in the order they are yielded
RECURSIVE summarize_address_range(_, _, _)
summarize_address_range(first, last, version) ==
    IF first > last THEN <<>>
    ELSE LET nb  == nbits(first, last, max_prefixlen(version))
             net == <<first, max_prefixlen(version) - nb>>
             nxt == first + Pow2(nb)
         IN  IF nxt - 1 = ALL_ONES(version)
             THEN <<net>>
             ELSE <<net>> \o summarize_address_range(nxt, last, version)

\* ------------------------------------------------------ range parser (pure)
Whitespace == {" ", "\t", "\n"}

Digit == <<"0", "1", "2", "3", "4", "5", "6", "7", "8", "9">>

\* str(n), as a sequence of characters
RECURSIVE str(_)
str(n) ==
    IF n < 0 THEN <<"-">> \o str(-n)
    ELSE IF n < 10 THEN <<Digit[n + 1]>>
    ELSE Append(str(n \div 10), Digit[(n % 10) + 1])

RECURSIVE lstrip(_)
lstrip(s) ==
    IF s # <<>> /\ Head(s) \in Whitespace THEN lstrip(Tail(s)) ELSE s

RECURSIVE rstrip(_)
rstrip(s) ==
    IF s # <<>> /\ s[Len(s)] \in Whitespace
    THEN rstrip(SubSeq(s, 1, Len(s) - 1)) ELSE s

\* line.strip()
strip(s) == rstrip(lstrip(s))

\* s.split("\t"): the fields between the tabs, one more than there are tabs
RECURSIVE split_tab(_)
split_tab(s) ==
    IF \A k \in 1 .. Len(s) : s[k] # "\t" THEN <<s>>
    ELSE LET k == CHOOSE j \in 1 .. Len(s) :
                      s[j] = "\t" /\ \A h \in 1 .. j - 1 : s[h] # "\t"
         IN  <<SubSeq(s, 1, k - 1)>> \o split_tab(SubSeq(s, k + 1, Len(s)))

\* the body of parse_dataset's loop for one line: skip it, yield a pair or
\* raise
parse_line(scr, line, a) ==
    IF (line # <<>> /\ Head(line) = "#") \/ strip(line) = <<>>
    THEN [kind |-> "skip"]
    ELSE LET parts == split_tab(strip(line))
         IN  IF scr = "asn_block" /\ Len(parts) < 3
             THEN [kind |-> "IndexError"]
             ELSE IF scr = "iptables_asn_block" /\ Len(parts) # 3
             THEN [kind |-> "ValueError"]
             ELSE IF parts[3] = str(a)
             THEN [kind |-> "yield", pair |-> <<parts[1], parts[2]>>]
             ELSE [kind |-> "skip"]

\* parse_dataset read to its end: the pairs yielded, and the exception that
\* ended it ("none" when it reached the end of the file)
RECURSIVE parse_dataset(_, _, _)
parse_dataset(scr, lines, a) ==
    IF lines = <<>> THEN [out |-> <<>>, err |-> "none"]
    ELSE LET r == parse_line(scr, Head(lines), a)
         IN  IF r.kind \in {"IndexError", "ValueError"}
             THEN [out |-> <<>>, err |-> r.kind]
             ELSE LET rest == parse_dataset(scr, Tail(lines), a)
                  IN  IF r.kind = "yield"
                      THEN [out |-> <<r.pair>> \o rest.out, err |-> rest.err]
                      ELSE rest

\* ------------------------------------------------------------- validation
AsnBits == 4

\* the program's 4294967295 (2^32 - 1), for ASNs of AsnBits bits
ASN_LIMIT == Pow2(AsnBits) - 1

validate_asn(a) == 0 < a /\ a < ASN_LIMIT

\* -------------------------------------------------------- backend selector
ServiceNames == {"firewalld", "ufw", "iptables", "ip6tables"}

is_service_active(service) == service \in services

BoolInt(b) == IF b THEN 1 ELSE 0

\* detect_firewall_backend counting the four services one by one
detect_counts_services ==
    LET firewalld == is_service_active("firewalld")
        ufw       == is_service_active("ufw")
        ipt       == is_service_active("iptables") \/ is_service_active("ip6tables")
    IN  IF Cardinality(services) > 1 THEN "conflict"
        ELSE IF firewalld THEN "firewalld"
        ELSE IF ufw THEN "ufw"
        ELSE IF ipt THEN "iptables"
        ELSE "unknown"

detect_firewall_backend ==
    LET firewalld == is_service_active("firewalld")
        ufw       == is_service_active("ufw")
        ipt       == is_service_active("iptables") \/ is_service_active("ip6tables")
    IN  IF BoolInt(firewalld) + BoolInt(ufw) + BoolInt(ipt) > 1 THEN "conflict"
        ELSE IF firewalld THEN "firewalld"
        ELSE IF ufw THEN "ufw"
        ELSE IF ipt THEN "iptables"
        ELSE "unknown"

\* the systemctl is-active queries detect_firewall_backend runs: ip6tables is
\* asked only when iptables is not active
detect_queries ==
    << <<"systemctl", "is-active", "firewalld">>,
       <<"systemctl", "is-active", "ufw">>,
       <<"systemctl", "is-active", "iptables">> >>
    \o (IF is_service_active("iptables") THEN <<>>
        ELSE << <<"systemctl", "is-active", "ip6tables">> >>)

\* ------------------------------------------------- from a dataset to CIDRs
\* the value of a decimal numeral
RECURSIVE int_of(_)
int_of(s) ==
    IF s = <<>> THEN 0
    ELSE 10 * int_of(SubSeq(s, 1, Len(s) - 1))
         + (CHOOSE d \in 0 .. 9 : Digit[d + 1] = s[Len(s)])

\* ipaddress.ip_address(string)
ip_address(s) == int_of(s)

\* str(net) of a network
cidr_str(net) == ToString(net[1]) \o "/" \o ToString(net[2])

\* iprange_to_cidr(start_ip, end_ip), on the two strings of a dataset line
iprange_to_cidr(start_ip, end_ip, version) ==
    summarize_address_range(ip_address(start_ip), ip_address(end_ip), version)

RECURSIVE cidrs_of_pairs(_, _)
cidrs_of_pairs(pairs, version) ==
    IF pairs = <<>> THEN <<>>
    ELSE LET cidrs == iprange_to_cidr(Head(pairs)[1], Head(pairs)[2], version)
         IN  [k \in 1 .. Len(cidrs) |-> cidr_str(cidrs[k])]
             \o cidrs_of_pairs(Tail(pairs), version)

\* the two nested loops over parse_dataset and iprange_to_cidr: str(net) of
\* every network, in order
dataset_cidrs(scr, version, a) ==
    cidrs_of_pairs(parse_dataset(scr, files[version].lines, a).out, version)

\* ----------------------------------------------------- the firewall state
TargetAsn == 7

\* f"ASN{asn}_{version}"
ipset_name(a, version) == <<"ASN", a, version>>

SetNames == {ipset_name(TargetAsn, v) : v \in {"v4", "v6"}}

NoSet == [exists |-> FALSE, members |-> {}]

\* nothing was given to apply_ufw_rule yet
NotPassed == [v \in {"v4", "v6"} |-> [given |-> FALSE, lines |-> <<>>, cidrs |-> <<>>]]

NoFirewall ==
    [ipsets |-> [n \in SetNames |-> NoSet],
     rules  |-> [n \in SetNames |-> 0],
     zone   |-> {},
     zone_runtime |-> {},
     ufw    |-> {}]

BIN_IPTABLES == "iptables"
BIN_IP6TABLES == "ip6tables"

\* an external command is a tuple of its words; these change the firewall
Mutating(c) ==
    \/ c[1] = "ipset" /\ c[2] \in {"create", "destroy", "flush", "add"}
    \/ c[1] \in {BIN_IPTABLES, BIN_IP6TABLES} /\ c[2] \in {"-I", "-D"}
    \/ c[1] = "firewall-cmd"
    \/ c[1] = "ufw"

\* whether the firewall state lets the command succeed
Allowed(c, f) ==
    CASE c[1] = "ipset" /\ c[2] = "create"  -> ~f.ipsets[c[3]].exists
      [] c[1] = "ipset" /\ c[2] = "destroy" ->
             f.ipsets[c[3]].exists /\ f.rules[c[3]] = 0
      [] c[1] = "ipset" /\ c[2] = "flush"   -> f.ipsets[c[3]].exists
      [] c[1] = "ipset" /\ c[2] = "add"     ->
             f.ipsets[c[3]].exists /\ c[4] \notin f.ipsets[c[3]].members
      [] c[1] \in {BIN_IPTABLES, BIN_IP6TABLES} /\ c[2] = "-I" ->
             f.ipsets[c[3]].exists
      [] c[1] \in {BIN_IPTABLES, BIN_IP6TABLES} /\ c[2] = "-D" ->
             f.rules[c[3]] > 0
      [] c[1] = "firewall-cmd" /\ c[2] = "--remove-source" -> c[3] \in f.zone
      [] OTHER -> TRUE

\* the firewall state after the command succeeded
Effect(c, f) ==
    CASE c[1] = "ipset" /\ c[2] = "create"  ->
             [f EXCEPT !.ipsets[c[3]] = [exists |-> TRUE, members |-> {}]]
      [] c[1] = "ipset" /\ c[2] = "destroy" ->
             [f EXCEPT !.ipsets[c[3]] = NoSet]
      [] c[1] = "ipset" /\ c[2] = "flush"   ->
             [f EXCEPT !.ipsets[c[3]].members = {}]
      [] c[1] = "ipset" /\ c[2] = "add"     ->
             [f EXCEPT !.ipsets[c[3]].members = @ \cup {c[4]}]
      [] c[1] \in {BIN_IPTABLES, BIN_IP6TABLES} /\ c[2] = "-I" ->
             [f EXCEPT !.rules[c[3]] = @ + 1]
      [] c[1] \in {BIN_IPTABLES, BIN_IP6TABLES} /\ c[2] = "-D" ->
             [f EXCEPT !.rules[c[3]] = @ - 1]
      [] c[1] = "firewall-cmd" /\ c[2] = "--add-source" ->
             [f EXCEPT !.zone = @ \cup {c[3]}]
      [] c[1] = "firewall-cmd" /\ c[2] = "--remove-source" ->
             [f EXCEPT !.zone = @ \ {c[3]}]
      [] c[1] = "firewall-cmd" /\ c[2] = "--reload" ->
             [f EXCEPT !.zone_runtime = f.zone]
      [] c[1] = "ufw" /\ c[2] = "deny"   -> [f EXCEPT !.ufw = @ \cup {c[3]}]
      [] c[1] = "ufw" /\ c[2] = "delete" -> [f EXCEPT !.ufw = @ \ {c[3]}]
      [] OTHER -> f

\* subprocess.run(cmd): the state after it, ok = FALSE when the command
\* fails for a reason outside the model
Exec(c, ok, f) == IF ok /\ Allowed(c, f) THEN Effect(c, f) ELSE f

OrchOff ==
    /\ script = "asn_block" /\ services = {}
    /\ files = [v \in {"v4", "v6"} |-> [exists |-> FALSE, lines |-> <<>>]]
    /\ fw = NoFirewall
    /\ pc = "off" /\ reason = "" /\ action = "" /\ asn = 0 /\ dry_run = FALSE
    /\ firewall = "" /\ vi = 1 /\ todo = <<>> /\ cidr_list = <<>>
    /\ issued = <<>> /\ printed = <<>>
    /\ runs = 0 /\ nfail = 0 /\ missing0 = FALSE /\ fw0 = NoFirewall /\ ufw_passed = NotPassed
    /\ pattern = "fresh"

\* --------------------------------------- the summarizer as a state machine
ParseOff ==
    /\ script_p = "asn_block" /\ lines_p = <<>> /\ asn_p = 0
    /\ i_p = 0 /\ out_p = <<>> /\ pc_p = "off"

InitCidr ==
    /\ ParseOff
    /\ OrchOff
    /\ version_c \in {"v4", "v6"}
    /\ start_c \in 0 .. ALL_ONES(version_c)
    /\ last_int \in 0 .. ALL_ONES(version_c)
    /\ first_int = start_c
    /\ nets = <<>>
    /\ pc_c = "call"

\* first > last: raise ValueError
CidrRaise ==
    /\ pc_c = "call"
    /\ first_int > last_int
    /\ pc_c' = "ValueError"
    /\ UNCHANGED <<version_c, start_c, first_int, last_int, nets>>
    /\ UNCHANGED <<parseVars, orchVars>>

CidrEnter ==
    /\ pc_c = "call"
    /\ first_int <= last_int
    /\ pc_c' = "loop"
    /\ UNCHANGED <<version_c, start_c, first_int, last_int, nets>>
    /\ UNCHANGED <<parseVars, orchVars>>

\* CidrYield with a cursor of the address width: it wraps to 0 past the
\* all-ones address, and there is no break
CidrYield_wraps ==
    /\ pc_c = "loop"
    /\ first_int <= last_int
    /\ LET nb == nbits(first_int, last_int, max_prefixlen(version_c))
       IN  /\ nets' = Append(nets, <<first_int, max_prefixlen(version_c) - nb>>)
           /\ first_int' = (first_int + Pow2(nb)) % Pow2(max_prefixlen(version_c))
           /\ pc_c' = "loop"
    /\ UNCHANGED <<version_c, start_c, last_int>>
    /\ UNCHANGED <<parseVars, orchVars>>

\* one iteration of the while loop: yield a network, advance the cursor,
\* break when the cursor passed the all-ones address
CidrYield ==
    /\ pc_c = "loop"
    /\ first_int <= last_int
    /\ LET nb == nbits(first_int, last_int, max_prefixlen(version_c))
       IN  /\ nets' = Append(nets, <<first_int, max_prefixlen(version_c) - nb>>)
           /\ first_int' = first_int + Pow2(nb)
           /\ pc_c' = IF first_int' - 1 = ALL_ONES(version_c) THEN "done" ELSE "loop"
    /\ UNCHANGED <<version_c, start_c, last_int>>
    /\ UNCHANGED <<parseVars, orchVars>>

\* the loop condition fails
CidrStop ==
    /\ pc_c = "loop"
    /\ first_int > last_int
    /\ pc_c' = "done"
    /\ UNCHANGED <<version_c, start_c, first_int, last_int, nets>>
    /\ UNCHANGED <<parseVars, orchVars>>

NextCidr == CidrRaise \/ CidrEnter \/ CidrYield \/ CidrStop

SpecCidr == InitCidr /\ [][NextCidr]_vars

\* ------------------------------------------- the parser as a state machine
MaxLines == 2

\* The lines a dataset of the parser's specification is made of: a comment,
\* an empty line, a line of white space, an indented comment, lines of one,
\* two, three and four fields, a padded line, a line ending in a tab, and
\* an ASN written with a leading zero.
Lines ==
    { <<"#", " ", "x">>,
      <<>>,
      <<" ", "\t", "\n">>,
      <<" ", "#">>,
      <<"1">>,
      <<"1", "\t", "2">>,
      <<"1", "\t", "2", "\t", "7", "\n">>,
      <<"3", "\t", "4", "\t", "8", "\n">>,
      <<"5", "\t", "6", "\t", "7", "\t", "x", "\n">>,
      <<" ", "1", "\t", "2", "\t", "7", " ">>,
      <<"1", "\t", "2", "\t">>,
      <<"1", "\t", "2", "\t", "0", "7">> }

RECURSIVE SeqsUpTo(_, _)
SeqsUpTo(S, n) ==
    IF n = 0 THEN {<<>>}
    ELSE LET shorter == SeqsUpTo(S, n - 1)
         IN  shorter \cup {Append(q, x) : q \in shorter, x \in S}

CidrOff ==
    /\ version_c = "v4" /\ start_c = 0 /\ first_int = 0 /\ last_int = 0
    /\ nets = <<>> /\ pc_c = "off"

InitParse ==
    /\ CidrOff
    /\ OrchOff
    /\ script_p \in Scripts
    /\ lines_p \in SeqsUpTo(Lines, MaxLines)
    /\ asn_p \in {7, 8}
    /\ i_p = 0
    /\ out_p = <<>>
    /\ pc_p = "run"

\* the generator reads the next line and skips it
ParseSkip ==
    /\ pc_p = "run" /\ i_p < Len(lines_p)
    /\ parse_line(script_p, lines_p[i_p + 1], asn_p).kind = "skip"
    /\ i_p' = i_p + 1
    /\ UNCHANGED <<script_p, lines_p, asn_p, out_p, pc_p>>
    /\ UNCHANGED <<cidrVars, orchVars>>

\* the generator reads the next line and yields its pair
ParseYield ==
    /\ pc_p = "run" /\ i_p < Len(lines_p)
    /\ LET r == parse_line(script_p, lines_p[i_p + 1], asn_p)
       IN  /\ r.kind = "yield"
           /\ out_p' = Append(out_p, r.pair)
    /\ i_p' = i_p + 1
    /\ UNCHANGED <<script_p, lines_p, asn_p, pc_p>>
    /\ UNCHANGED <<cidrVars, orchVars>>

\* the generator reads the next line and raises
ParseRaise ==
    /\ pc_p = "run" /\ i_p < Len(lines_p)
    /\ LET r == parse_line(script_p, lines_p[i_p + 1], asn_p)
       IN  /\ r.kind \in {"IndexError", "ValueError"}
           /\ pc_p' = r.kind
    /\ i_p' = i_p + 1
    /\ UNCHANGED <<script_p, lines_p, asn_p, out_p>>
    /\ UNCHANGED <<cidrVars, orchVars>>

\* end of the file
ParseEnd ==
    /\ pc_p = "run" /\ i_p = Len(lines_p)
    /\ pc_p' = "done"
    /\ UNCHANGED <<script_p, lines_p, asn_p, i_p, out_p>>
    /\ UNCHANGED <<cidrVars, orchVars>>

NextParse == ParseSkip \/ ParseYield \/ ParseRaise \/ ParseEnd

SpecParse == InitParse /\ [][NextParse]_vars

\* ------------------------------------------------ the runs of the scripts
MaxRuns == 3
MaxFail == 1

\* Datasets as download_file leaves them: lines of three tab-separated
\* fields, start <= end.  ASN 7 is announced from 2..4 (first v4 dataset),
\* 4..7 (second v4 dataset) and 8..9 (v6 dataset).
Data ==
    [v4 |-> { << <<"0", "\t", "1", "\t", "8", "\n">>,
                 <<"2", "\t", "4", "\t", "7", "\n">> >>,
              << <<"4", "\t", "7", "\t", "7", "\n">> >> },
     v6 |-> { << <<"8", "\t", "9", "\t", "7", "\n">> >> }]

Absent == [exists |-> FALSE, lines |-> <<>>]

Cached(d) == [exists |-> TRUE, lines |-> d]

AsnInputs == {-1, 0, TargetAsn, ASN_LIMIT}

Terminal == {"Idle", "Done", "Aborted", "Raised"}

version == Versions[vi]

ipset == ipset_name(asn, version)

iptables_cmd == IF version = "v4" THEN BIN_IPTABLES ELSE BIN_IP6TABLES

Init ==
    /\ CidrOff
    /\ ParseOff
    /\ script \in Scripts
    /\ services \in SUBSET ServiceNames
    /\ files \in [{"v4", "v6"} -> {Absent} \cup {Cached(d) : d \in Data.v4 \cup Data.v6}]
    /\ \A v \in {"v4", "v6"} : files[v].exists => files[v].lines \in Data[v]
    /\ fw = NoFirewall
    /\ pc = "Idle" /\ reason = "" /\ action = "" /\ asn = 0 /\ dry_run = FALSE
    /\ firewall = "" /\ vi = 1 /\ todo = <<>> /\ cidr_list = <<>>
    /\ issued = <<>> /\ printed = <<>>
    /\ runs = 0 /\ nfail = 0 /\ missing0 = FALSE /\ fw0 = NoFirewall /\ ufw_passed = NotPassed
    /\ pattern = "fresh"

pureVars == <<cidrVars, parseVars>>
args == <<action, asn, dry_run>>
book == <<runs, missing0, fw0, ufw_passed, pattern>>

\* ---- how a step runs or prints its commands
OkSet == IF nfail < MaxFail THEN {TRUE, FALSE} ELSE {TRUE}

\* subprocess.run of one command
Run1(c) ==
    \E ok \in OkSet :
        /\ fw' = Exec(c, ok, fw)
        /\ issued' = Append(issued, c)
        /\ nfail' = nfail + BoolInt(~ok)
        /\ printed' = printed

\* subprocess.run of two commands, one after the other
Run2(c1, c2) ==
    \E ok1 \in OkSet, ok2 \in BOOLEAN :
        /\ nfail + BoolInt(~ok1) + BoolInt(~ok2) <= MaxFail
        /\ fw' = Exec(c2, ok2, Exec(c1, ok1, fw))
        /\ issued' = issued \o <<c1, c2>>
        /\ nfail' = nfail + BoolInt(~ok1) + BoolInt(~ok2)
        /\ printed' = printed

\* print("[DRY-RUN] Would run: ...") of each command
WouldRun(cs) ==
    /\ printed' = printed \o cs
    /\ UNCHANGED <<fw, issued, nfail>>

\* a read-only external command
Query(c) ==
    /\ issued' = Append(issued, c)
    /\ UNCHANGED <<fw, nfail, printed>>

\* the end of one iteration of `for version in ["v4", "v6"]`
NextVersion(loop_start) ==
    /\ todo' = <<>>
    /\ cidr_list' = <<>>
    /\ IF vi < Len(Versions)
       THEN vi' = vi + 1 /\ pc' = loop_start /\ reason' = reason
       ELSE vi' = vi /\ pc' = "Done" /\ reason' = "returned"

\* ---- main()
StartRun ==
    /\ pc \in Terminal
    /\ runs < MaxRuns
    /\ \E act \in {"block", "unblock"}, a \in AsnInputs, d \in BOOLEAN :
        /\ action' = act /\ asn' = a /\ dry_run' = d
        /\ IF a = 0
           THEN pc' = "Aborted" /\ reason' = "AsnRequired"
           ELSE pc' = "validate" /\ reason' = ""
        /\ pattern' =
             IF a = TargetAsn /\ ~d /\ act = "block" /\ pattern \in {"fresh", "blocks"}
             THEN "blocks"
             ELSE IF a = TargetAsn /\ ~d /\ act = "unblock" /\ pattern = "blocks"
             THEN "unblocked"
             ELSE "other"
    /\ firewall' = "" /\ vi' = 1 /\ todo' = <<>> /\ cidr_list' = <<>>
    /\ issued' = <<>> /\ printed' = <<>>
    /\ runs' = runs + 1
    /\ missing0' = (\E v \in {"v4", "v6"} : ~files[v].exists)
    /\ fw0' = fw
    /\ ufw_passed' = ufw_passed
    /\ UNCHANGED <<pureVars, envVars, nfail>>

\* update_datasets(): the two downloads, v4 then v6; a download that raises
\* leaves its file as it was
Download(outcome, d4, d6) ==
    /\ files' = [files EXCEPT
                    !.v4 = IF outcome \in {"ok", "v6 fails"} THEN Cached(d4) ELSE @,
                    !.v6 = IF outcome = "ok" THEN Cached(d6) ELSE @]
    /\ issued' = issued \o (IF outcome = "v4 fails"
                            THEN << <<"GET", "v4">> >>
                            ELSE << <<"GET", "v4">>, <<"GET", "v6">> >>)

\* main() with action "update"
Update ==
    /\ pc \in Terminal
    /\ runs < MaxRuns
    /\ action' = "update" /\ asn' = 0 /\ dry_run' = FALSE
    /\ firewall' = "" /\ vi' = 1 /\ todo' = <<>> /\ cidr_list' = <<>>
    /\ printed' = <<>>
    /\ runs' = runs + 1
    /\ pattern' = "other"
    /\ missing0' = (\E v \in {"v4", "v6"} : ~files[v].exists)
    /\ fw0' = fw
    /\ ufw_passed' = ufw_passed
    /\ \E outcome \in {"ok", "v4 fails", "v6 fails"}, d4 \in Data.v4, d6 \in Data.v6 :
        /\ files' = [files EXCEPT
                        !.v4 = IF outcome \in {"ok", "v6 fails"} THEN Cached(d4) ELSE @,
                        !.v6 = IF outcome = "ok" THEN Cached(d6) ELSE @]
        /\ issued' = IF outcome = "v4 fails"
                     THEN << <<"GET", "v4">> >>
                     ELSE << <<"GET", "v4">>, <<"GET", "v6">> >>
        /\ IF outcome = "ok"
           THEN pc' = "Done" /\ reason' = "returned"
           ELSE pc' = "Raised" /\ reason' = "RequestException"
    /\ UNCHANGED <<pureVars, script, services, fw, nfail>>

\* Validate with the return after logger.error left out
Validate_no_return ==
    /\ pc = "validate"
    /\ reason' = IF ~validate_asn(asn) THEN "InvalidAsn" ELSE reason
    /\ pc' = IF script = "asn_block" THEN "detect"
             ELSE IF action = "block" THEN "ensure"
             ELSE "ipt_cleanup"
    /\ UNCHANGED <<pureVars, envVars, args, book, nfail, firewall, vi, todo,
                   cidr_list, issued, printed>>

\* the validate_asn check that opens create_ipset_and_rules and
\* cleanup_ipsets, in both scripts
Validate ==
    /\ pc = "validate"
    /\ IF ~validate_asn(asn)
       THEN pc' = "Aborted" /\ reason' = "InvalidAsn"
       ELSE /\ reason' = reason
            /\ pc' = IF script = "asn_block" THEN "detect"
                     ELSE IF action = "block" THEN "ensure"
                     ELSE "ipt_cleanup"
    /\ UNCHANGED <<pureVars, envVars, args, book, nfail, firewall, vi, todo,
                   cidr_list, issued, printed>>

\* DetectBackend with the return on conflict left out
DetectBackend_no_return ==
    /\ pc = "detect"
    /\ firewall' = detect_firewall_backend
    /\ issued' = issued \o detect_queries
    /\ reason' = reason
    /\ pc' = IF action = "block" THEN "ensure" ELSE "parse"
    /\ UNCHANGED <<pureVars, envVars, args, book, nfail, vi, todo, cidr_list,
                   printed>>

\* asn_block.py: firewall = detect_firewall_backend(), return on conflict
DetectBackend ==
    /\ pc = "detect"
    /\ firewall' = detect_firewall_backend
    /\ issued' = issued \o detect_queries
    /\ IF firewall' = "conflict"
       THEN pc' = "Aborted" /\ reason' = "BackendConflict"
       ELSE /\ reason' = reason
            /\ pc' = IF action = "block" THEN "ensure" ELSE "parse"
    /\ UNCHANGED <<pureVars, envVars, args, book, nfail, vi, todo, cidr_list,
                   printed>>

\* ensure_data_dir(); ensure_datasets(): download when a file is missing
EnsureDatasets ==
    /\ pc = "ensure"
    /\ IF files["v4"].exists /\ files["v6"].exists
       THEN /\ pc' = IF script = "asn_block" THEN "reset" ELSE "ipt_create"
            /\ UNCHANGED <<files, issued, reason, pattern>>
       ELSE \E outcome \in {"ok", "v4 fails", "v6 fails"},
               d4 \in Data.v4, d6 \in Data.v6 :
            /\ Download(outcome, d4, d6)
            /\ pattern' = "other"
            /\ IF outcome = "ok"
               THEN /\ pc' = IF script = "asn_block" THEN "reset" ELSE "ipt_create"
                    /\ reason' = reason
               ELSE pc' = "Raised" /\ reason' = "RequestException"
    /\ UNCHANGED <<pureVars, script, services, fw, args, runs, missing0, fw0, ufw_passed,
                   nfail, firewall, vi, todo, cidr_list, printed>>

stepFrame == <<pureVars, script, services, files, args, book, firewall>>

\* ---- asn_block.py, block: create_or_reset_ipset
ResetList ==
    /\ pc = "reset"
    /\ Query(<<"ipset", "list", ipset>>)
    /\ pc' = IF fw.ipsets[ipset].exists THEN "reset_destroy" ELSE "reset_create"
    /\ UNCHANGED <<stepFrame, reason, vi, todo, cidr_list>>

ResetDestroy ==
    /\ pc = "reset_destroy"
    /\ IF dry_run THEN WouldRun(<< <<"ipset", "destroy", ipset>> >>)
       ELSE Run1(<<"ipset", "destroy", ipset>>)
    /\ pc' = "reset_create"
    /\ UNCHANGED <<stepFrame, reason, vi, todo, cidr_list>>

\* the create of create_or_reset_ipset; the loops over the dataset start
ResetCreate ==
    /\ pc = "reset_create"
    /\ IF dry_run THEN WouldRun(<< <<"ipset", "create", ipset>> >>)
       ELSE Run1(<<"ipset", "create", ipset>>)
    /\ todo' = dataset_cidrs(script, version, asn)
    /\ cidr_list' = <<>>
    /\ pc' = "add"
    /\ UNCHANGED <<stepFrame, reason, vi>>

\* AddIp with the CIDR put at the front of cidr_list
AddIp_at_front ==
    /\ pc = "add" /\ script = "asn_block"
    /\ todo # <<>>
    /\ IF dry_run THEN WouldRun(<< <<"ipset", "add", ipset, Head(todo)>> >>)
       ELSE Run1(<<"ipset", "add", ipset, Head(todo)>>)
    /\ cidr_list' = <<Head(todo)>> \o cidr_list
    /\ todo' = Tail(todo)
    /\ UNCHANGED <<stepFrame, pc, reason, vi>>

\* add_ip_to_ipset(ipset_name, cidr); cidr_list.append(cidr)
AddIp ==
    /\ pc = "add" /\ script = "asn_block"
    /\ todo # <<>>
    /\ IF dry_run THEN WouldRun(<< <<"ipset", "add", ipset, Head(todo)>> >>)
       ELSE Run1(<<"ipset", "add", ipset, Head(todo)>>)
    /\ cidr_list' = Append(cidr_list, Head(todo))
    /\ todo' = Tail(todo)
    /\ UNCHANGED <<stepFrame, pc, reason, vi>>

\* apply_iptables_rule
ApplyIptables ==
    /\ pc = "add" /\ script = "asn_block"
    /\ todo = <<>>
    /\ firewall = "iptables"
    /\ IF dry_run THEN WouldRun(<< <<iptables_cmd, "-I", ipset>> >>)
       ELSE Run1(<<iptables_cmd, "-I", ipset>>)
    /\ NextVersion("reset")
    /\ UNCHANGED stepFrame

\* apply_firewalld_rule
ApplyFirewalld ==
    /\ pc = "add" /\ script = "asn_block"
    /\ todo = <<>>
    /\ firewall = "firewalld"
    /\ IF dry_run
       THEN WouldRun(<< <<"firewall-cmd", "--add-source", ipset>>,
                        <<"firewall-cmd", "--reload">> >>)
       ELSE Run2(<<"firewall-cmd", "--add-source", ipset>>,
                 <<"firewall-cmd", "--reload">>)
    /\ NextVersion("reset")
    /\ UNCHANGED stepFrame

\* apply_ufw_rule(cidr_list) is entered
ApplyUfw ==
    /\ pc = "add" /\ script = "asn_block"
    /\ todo = <<>>
    /\ firewall = "ufw"
    /\ todo' = cidr_list
    /\ ufw_passed' = [ufw_passed EXCEPT ![version] =
                         [given |-> TRUE, lines |-> files[version].lines,
                          cidrs |-> cidr_list]]
    /\ pc' = "ufw_apply"
    /\ UNCHANGED <<pureVars, script, services, files, args, runs, missing0, fw0,
                   pattern, firewall>>
    /\ UNCHANGED <<fw, nfail, reason, vi, cidr_list, issued, printed>>

\* one turn of apply_ufw_rule's loop
UfwDeny ==
    /\ pc = "ufw_apply"
    /\ todo # <<>>
    /\ IF dry_run THEN WouldRun(<< <<"ufw", "deny", Head(todo)>> >>)
       ELSE Run1(<<"ufw", "deny", Head(todo)>>)
    /\ todo' = Tail(todo)
    /\ UNCHANGED <<stepFrame, pc, reason, vi, cidr_list>>

UfwApplied ==
    /\ pc = "ufw_apply"
    /\ todo = <<>>
    /\ NextVersion("reset")
    /\ UNCHANGED <<stepFrame, fw, nfail, issued, printed>>

\* no branch of the if/elif chain is taken
ApplyNone ==
    /\ pc = "add" /\ script = "asn_block"
    /\ todo = <<>>
    /\ firewall = "unknown"
    /\ NextVersion("reset")
    /\ UNCHANGED <<stepFrame, fw, nfail, issued, printed>>

\* ---- asn_block.py, unblock
\* the loops over parse_dataset(FILES[version], asn) that fill cidr_list;
\* open() raises when the file is not there
ParseForRemove ==
    /\ pc = "parse"
    /\ IF files[version].exists
       THEN /\ cidr_list' = dataset_cidrs(script, version, asn)
            /\ pc' = "remove"
            /\ reason' = reason
       ELSE /\ cidr_list' = cidr_list
            /\ pc' = "Raised"
            /\ reason' = "FileNotFoundError"
    /\ UNCHANGED <<stepFrame, fw, nfail, vi, todo, issued, printed>>

\* remove_iptables_rule
RemoveIptables ==
    /\ pc = "remove"
    /\ firewall = "iptables"
    /\ IF dry_run THEN WouldRun(<< <<iptables_cmd, "-D", ipset>> >>)
       ELSE Run1(<<iptables_cmd, "-D", ipset>>)
    /\ pc' = "destroy"
    /\ UNCHANGED <<stepFrame, reason, vi, todo, cidr_list>>

\* remove_firewalld_rule
RemoveFirewalld ==
    /\ pc = "remove"
    /\ firewall = "firewalld"
    /\ IF dry_run
       THEN WouldRun(<< <<"firewall-cmd", "--remove-source", ipset>>,
                        <<"firewall-cmd", "--reload">> >>)
       ELSE Run2(<<"firewall-cmd", "--remove-source", ipset>>,
                 <<"firewall-cmd", "--reload">>)
    /\ pc' = "destroy"
    /\ UNCHANGED <<stepFrame, reason, vi, todo, cidr_list>>

\* remove_ufw_rule(cidr_list) is entered
RemoveUfw ==
    /\ pc = "remove"
    /\ firewall = "ufw"
    /\ todo' = cidr_list
    /\ pc' = "ufw_remove"
    /\ UNCHANGED <<stepFrame, fw, nfail, reason, vi, cidr_list, issued, printed>>

\* one turn of remove_ufw_rule's loop
UfwDelete ==
    /\ pc = "ufw_remove"
    /\ todo # <<>>
    /\ IF dry_run THEN WouldRun(<< <<"ufw", "delete", Head(todo)>> >>)
       ELSE Run1(<<"ufw", "delete", Head(todo)>>)
    /\ todo' = Tail(todo)
    /\ UNCHANGED <<stepFrame, pc, reason, vi, cidr_list>>

UfwRemoved ==
    /\ pc = "ufw_remove"
    /\ todo = <<>>
    /\ pc' = "destroy"
    /\ UNCHANGED <<stepFrame, fw, nfail, reason, vi, todo, cidr_list, issued,
                   printed>>

RemoveNone ==
    /\ pc = "remove"
    /\ firewall = "unknown"
    /\ pc' = "destroy"
    /\ UNCHANGED <<stepFrame, fw, nfail, reason, vi, todo, cidr_list, issued,
                   printed>>

\* the ipset destroy that ends an iteration of cleanup_ipsets
DestroySet ==
    /\ pc = "destroy"
    /\ IF dry_run THEN WouldRun(<< <<"ipset", "destroy", ipset>> >>)
       ELSE Run1(<<"ipset", "destroy", ipset>>)
    /\ NextVersion("parse")
    /\ UNCHANGED stepFrame

\* ---- iptables_asn_block.py, block
\* ipset create and ipset flush, unless dry_run; the loops over the dataset
\* start
IptCreateFlush ==
    /\ pc = "ipt_create"
    /\ IF dry_run THEN UNCHANGED <<fw, issued, nfail, printed>>
       ELSE Run2(<<"ipset", "create", ipset>>, <<"ipset", "flush", ipset>>)
    /\ todo' = dataset_cidrs(script, version, asn)
    /\ cidr_list' = <<>>
    /\ pc' = "add"
    /\ UNCHANGED <<stepFrame, reason, vi>>

\* ipset add of one CIDR, or the line that it would be added
IptAdd ==
    /\ pc = "add" /\ script = "iptables_asn_block"
    /\ todo # <<>>
    /\ IF dry_run THEN WouldRun(<< <<"Would add", Head(todo), ipset>> >>)
       ELSE Run1(<<"ipset", "add", ipset, Head(todo)>>)
    /\ todo' = Tail(todo)
    /\ UNCHANGED <<stepFrame, pc, reason, vi, cidr_list>>

\* rule_exists = (iptables -C ...) == 0, unless dry_run
IptCheck ==
    /\ pc = "add" /\ script = "iptables_asn_block"
    /\ todo = <<>>
    /\ IF dry_run
       THEN /\ NextVersion("ipt_create")
            /\ UNCHANGED <<fw, issued, nfail, printed>>
       ELSE /\ Query(<<iptables_cmd, "-C", ipset>>)
            /\ IF fw.rules[ipset] > 0
               THEN NextVersion("ipt_create")
               ELSE /\ pc' = "ipt_insert"
                    /\ UNCHANGED <<reason, vi, todo, cidr_list>>
    /\ UNCHANGED stepFrame

\* if not rule_exists: iptables -I
IptInsert ==
    /\ pc = "ipt_insert"
    /\ Run1(<<iptables_cmd, "-I", ipset>>)
    /\ NextVersion("ipt_create")
    /\ UNCHANGED stepFrame

\* IptCleanup with the set destroyed before the rule is deleted
IptCleanup_destroy_first ==
    /\ pc = "ipt_cleanup"
    /\ Run2(<<"ipset", "destroy", ipset>>, <<iptables_cmd, "-D", ipset>>)
    /\ NextVersion("ipt_cleanup")
    /\ UNCHANGED stepFrame

\* ---- iptables_asn_block.py, unblock: cleanup_ipsets(asn) has no dry_run
IptCleanup ==
    /\ pc = "ipt_cleanup"
    /\ Run2(<<iptables_cmd, "-D", ipset>>, <<"ipset", "destroy", ipset>>)
    /\ NextVersion("ipt_cleanup")
    /\ UNCHANGED stepFrame

Next ==
    \/ StartRun \/ Update \/ Validate \/ DetectBackend \/ EnsureDatasets
    \/ ResetList \/ ResetDestroy \/ ResetCreate \/ AddIp
    \/ ApplyIptables \/ ApplyFirewalld \/ ApplyUfw \/ UfwDeny \/ UfwApplied
    \/ ApplyNone
    \/ ParseForRemove \/ RemoveIptables \/ RemoveFirewalld \/ RemoveUfw
    \/ UfwDelete \/ UfwRemoved \/ RemoveNone \/ DestroySet
    \/ IptCreateFlush \/ IptAdd \/ IptCheck \/ IptInsert \/ IptCleanup

Spec == Init /\ [][Next]_vars

\* ================================================================ claims
\* the addresses a network covers
BlockSize(net, v) == Pow2(max_prefixlen(v) - net[2])

Covered(net, v) == net[1] .. (net[1] + BlockSize(net, v) - 1)

\* C1: when iprange_to_cidr(start, end) has run to its end for start <= end,
\* every network it yielded is a prefix-aligned CIDR block, the blocks are
\* pairwise disjoint and their union is exactly the interval start .. end;
\* the networks are those of summarize_address_range, which the
\* orchestrator uses.
C1_ExactCover ==
    pc_c = "done" =>
        /\ \A k \in 1 .. Len(nets) :
               /\ nets[k][2] \in 0 .. max_prefixlen(version_c)
               /\ nets[k][1] % BlockSize(nets[k], version_c) = 0
        /\ UNION {Covered(nets[k], version_c) : k \in 1 .. Len(nets)}
               = start_c .. last_int
        /\ \A j, k \in 1 .. Len(nets) :
               j # k => Covered(nets[j], version_c) \cap Covered(nets[k], version_c) = {}
        /\ nets = summarize_address_range(start_c, last_int, version_c)

\* a v6 range that needs three blocks or more has been summarized
C1_Witness == pc_c = "done" /\ version_c = "v6" /\ Len(nets) >= 3

\* two blocks of the same size that together are one aligned block of twice
\* the size
Mergeable(n1, n2, v) ==
    /\ n1[2] = n2[2]
    /\ n1[2] > 0
    /\ n2[1] = n1[1] + BlockSize(n1, v)
    /\ n1[1] % (2 * BlockSize(n1, v)) = 0

\* C2: the output of iprange_to_cidr is minimal: no two blocks of it (so no
\* two adjacent blocks) have the same size and together form one
\* prefix-aligned block of twice that size.
C2_Minimal ==
    pc_c = "done" =>
        \A j, k \in 1 .. Len(nets) : ~Mergeable(nets[j], nets[k], version_c)

\* a range was summarized into two neighbours of the same size that do not
\* merge
C2_Witness ==
    /\ pc_c = "done"
    /\ \E k \in 1 .. Len(nets) - 1 : nets[k][2] = nets[k + 1][2]

\* C3: in --dry-run mode no step of block or unblock changes the named
\* sets, their members, the iptables rules, the firewalld zone bindings or
\* the ufw rules.
C3_DryRunChangesNothing == [][(dry_run /\ nfail' = 0) => fw' = fw]_vars

MutatingIssued == SelectSeq(issued, Mutating)

\* C4: when detect_firewall_backend returned conflict the run is Aborted and
\* has issued no state-mutating command, live or as a dry-run line.
C4_ConflictAbortsFirst ==
    firewall = "conflict" =>
        /\ pc = "Aborted"
        /\ reason = "BackendConflict"
        /\ MutatingIssued = <<>>
        /\ printed = <<>>

\* a live unblock was aborted on a conflict
C4_Witness ==
    /\ firewall = "conflict" /\ pc = "Aborted"
    /\ action = "unblock" /\ ~dry_run /\ Cardinality(services) = 3

\* C5: the INPUT chain of each IP version holds at most one DROP rule
\* matching the set ASN<asn>_<version>, whatever live block runs there were
\* (no command failing for an outside reason).
C5_NoDuplicateRule ==
    (pattern = "blocks" /\ nfail = 0) => \A n \in SetNames : fw.rules[n] <= 1

\* the backends that are active: iptables stands for the iptables and the
\* ip6tables service
ActiveBackends ==
    {b \in {"firewalld", "ufw"} : b \in services}
    \cup (IF services \cap {"iptables", "ip6tables"} # {} THEN {"iptables"} ELSE {})

\* C6, as stated: conflict if and only if two services or more are active,
\* the active backend when exactly one is, none ("unknown") when none is.
C6_ConflictIffTwoServices ==
    firewall # "" =>
        /\ firewall = "conflict" <=> Cardinality(services) >= 2
        /\ Cardinality(services) = 1 => firewall \in ActiveBackends
        /\ Cardinality(services) = 0 => firewall = "unknown"

\* C6, amended: conflict if and only if two or more of the three backends
\* firewalld, ufw and iptables are active, where iptables is active when the
\* iptables or the ip6tables service is; the one active backend when there
\* is exactly one; "unknown" when there is none.
C6_ConflictIffTwoBackends ==
    firewall # "" =>
        /\ firewall = "conflict" <=> Cardinality(ActiveBackends) >= 2
        /\ Cardinality(ActiveBackends) = 1 => firewall \in ActiveBackends
        /\ Cardinality(ActiveBackends) = 0 => firewall = "unknown"

\* iptables and ip6tables are both active and the backend is iptables
C6_Witness ==
    /\ firewall = "iptables"
    /\ services = {"iptables", "ip6tables"}

\* C7: after one or more live block runs of an ASN and then one live unblock
\* run of it, from a machine with no set and no rule, no download in
\* between and no command failing for an outside reason, no set, rule, zone
\* binding or ufw rule is left.
C7_BlockThenUnblockLeavesNothing ==
    (pattern = "unblocked" /\ pc = "Done" /\ nfail = 0) => fw = NoFirewall

\* C8: a block or unblock whose ASN validate_asn rejects (or main() does,
\* for no ASN) ends Aborted at once, without any external command run or
\* printed.
C8_InvalidAsnNoEffects ==
    (action \in {"block", "unblock"} /\ ~validate_asn(asn)) =>
        /\ pc \in {"validate", "Aborted"}
        /\ issued = <<>>
        /\ printed = <<>>

\* a live unblock of the ASN 2^AsnBits - 1 was rejected on a machine that
\* holds a set
C8_Witness ==
    /\ pc = "Aborted" /\ reason = "InvalidAsn"
    /\ asn = ASN_LIMIT /\ action = "unblock" /\ ~dry_run
    /\ \E n \in SetNames : fw.ipsets[n].exists

\* a line the spec calls well formed: no comment, not blank, three fields or
\* more
WellFormed(line) ==
    /\ ~(line # <<>> /\ Head(line) = "#")
    /\ strip(line) # <<>>
    /\ Len(split_tab(strip(line))) >= 3

RECURSIVE ExpectedPairs(_, _)
ExpectedPairs(lines, a) ==
    IF lines = <<>> THEN <<>>
    ELSE LET parts == split_tab(strip(Head(lines)))
         IN  (IF WellFormed(Head(lines)) /\ parts[3] = str(a)
              THEN << <<parts[1], parts[2]>> >> ELSE <<>>)
             \o ExpectedPairs(Tail(lines), a)

\* C9: parse_dataset never raises, and read to its end it has yielded
\* exactly the pairs of the well-formed lines of the target ASN, in order.
C9_ParseSkipsMalformed ==
    /\ pc_p \notin {"IndexError", "ValueError"}
    /\ pc_p = "done" => out_p = ExpectedPairs(lines_p, asn_p)

\* C10: a block or unblock that began with a dataset file absent does not
\* end in an exception (other than the download's own).
C10_MissingDatasetNeverFails ==
    (action \in {"block", "unblock"} /\ missing0 /\ pc = "Raised")
        => reason = "RequestException"


\* ---- dry runs against live runs
\* the command a [DRY-RUN] line names
Named(p) == IF p[1] = "Would add" THEN <<"ipset", "add", p[3], p[2]>> ELSE p

NamedCommands == [k \in 1 .. Len(printed) |-> Named(printed[k])]

AddCommands(n, cs) == [k \in 1 .. Len(cs) |-> <<"ipset", "add", n, cs[k]>>]

UfwCommands(verb, cs) == [k \in 1 .. Len(cs) |-> <<"ufw", verb, cs[k]>>]

\* the commands of the detected backend that apply or remove the rule of
\* version v
RuleCommands(v, ins, src, verb) ==
    LET n == ipset_name(asn, v)
        bin == IF v = "v4" THEN BIN_IPTABLES ELSE BIN_IP6TABLES
    IN  CASE firewall = "iptables"  -> << <<bin, ins, n>> >>
          [] firewall = "firewalld" -> << <<"firewall-cmd", src, n>>,
                                          <<"firewall-cmd", "--reload">> >>
          [] firewall = "ufw" -> UfwCommands(verb, dataset_cidrs(script, v, asn))
          [] OTHER -> <<>>

\* the state-mutating commands a live run issues for version v, when it
\* starts from the firewall state fw0 and reads the datasets in files
LiveCommandsOf(v) ==
    LET n == ipset_name(asn, v)
        bin == IF v = "v4" THEN BIN_IPTABLES ELSE BIN_IP6TABLES
        adds == AddCommands(n, dataset_cidrs(script, v, asn))
    IN  CASE script = "asn_block" /\ action = "block" ->
                 (IF fw0.ipsets[n].exists
                  THEN << <<"ipset", "destroy", n>> >> ELSE <<>>)
                 \o << <<"ipset", "create", n>> >> \o adds
                 \o RuleCommands(v, "-I", "--add-source", "deny")
          [] script = "asn_block" /\ action = "unblock" ->
                 RuleCommands(v, "-D", "--remove-source", "delete")
                 \o << <<"ipset", "destroy", n>> >>
          [] script = "iptables_asn_block" /\ action = "block" ->
                 << <<"ipset", "create", n>>, <<"ipset", "flush", n>> >>
                 \o adds
                 \o (IF fw0.rules[n] = 0 THEN << <<bin, "-I", n>> >> ELSE <<>>)
          [] OTHER ->
                 << <<bin, "-D", n>>, <<"ipset", "destroy", n>> >>

LiveCommands == LiveCommandsOf("v4") \o LiveCommandsOf("v6")

\* C11: when a block or unblock run has returned, the commands its
\* [DRY-RUN] lines name, in the order printed, are the state-mutating
\* commands a live run with the same arguments, datasets and initial
\* firewall state issues, in the order issued (a live run is held to the
\* same list, so that the list is the live run's and not a second opinion).
C11_DryRunNamesLiveCommands ==
    (pc = "Done" /\ action \in {"block", "unblock"})
        => (IF dry_run THEN NamedCommands ELSE MutatingIssued) = LiveCommands


\* ---- best effort
IsPrefix(s, t) == Len(s) <= Len(t) /\ s = SubSeq(t, 1, Len(s))

\* C12: a block or unblock run with a valid ASN and no backend conflict
\* ends in Done whatever the state-mutating commands return (here even
\* granting that a failed download may end it): it never ends by raising;
\* at every point of a live run the commands issued so far are an initial
\* part of the list of the run's commands, so none was issued again after
\* it failed and none was skipped after another failed; and when the run
\* is Done the whole list was issued.
C12_BestEffortRunsToDone ==
    (action \in {"block", "unblock"} /\ validate_asn(asn) /\ firewall # "conflict")
        => /\ pc = "Raised" => reason = "RequestException"
           /\ ~dry_run => IsPrefix(MutatingIssued, LiveCommands)
           /\ (~dry_run /\ pc = "Done") => MutatingIssued = LiveCommands


\* C13: validate_asn accepts exactly 1 .. 2^AsnBits - 1, both bounds
\* included: a block or unblock run that has passed the check was aborted
\* with InvalidAsn if and only if its ASN is outside that range.
C13_ValidAsnRange ==
    (action \in {"block", "unblock"} /\ asn # 0 /\ pc # "validate")
        => ((pc = "Aborted" /\ reason = "InvalidAsn")
                <=> ~(1 <= asn /\ asn <= ASN_LIMIT))


\* C14: the range reduction stops without wrapping.  While it runs and when
\* it has stopped, for start <= end: it has yielded at most 2 * bits blocks;
\* its cursor went up from start and is never past end + 1, so never past
\* the all-ones address by more than the one step that ends the loop, and
\* never back at a low address; every block starts after the one before it
\* and ends at or before end; when it has stopped the cursor is end + 1; and
\* the full range 0 .. all-ones gave the single block /0.
C14_StopsWithoutWrapping ==
    pc_c \in {"loop", "done"} =>
        LET bits == max_prefixlen(version_c)
        IN  /\ Len(nets) <= 2 * bits
            /\ start_c <= first_int /\ first_int <= last_int + 1
            /\ \A k \in 1 .. Len(nets) :
                   /\ nets[k][1] + BlockSize(nets[k], version_c) - 1 <= last_int
                   /\ k < Len(nets) => nets[k][1] < nets[k + 1][1]
            /\ pc_c = "done" => first_int = last_int + 1
            /\ (pc_c = "done" /\ start_c = 0 /\ last_int = ALL_ONES(version_c))
                   => nets = << <<0, 0>> >>

\* the full range was reduced: one block, and the cursor stands one past
\* the all-ones address
C14_Witness ==
    /\ pc_c = "done"
    /\ start_c = 0 /\ last_int = ALL_ONES(version_c)
    /\ nets = << <<0, 0>> >>
    /\ first_int = ALL_ONES(version_c) + 1


\* C15: with the ufw backend, when unblock gives its recomputed cidr_list
\* to remove_ufw_rule for a version, and the dataset of that version is the
\* one the last block of the ASN read, the list is the list that block gave
\* to apply_ufw_rule for that version, in the same order.
C15_UnblockRecomputesBlockList ==
    (action = "unblock" /\ pc = "ufw_remove"
       /\ ufw_passed[version].given
       /\ ufw_passed[version].lines = files[version].lines)
        => cidr_list = ufw_passed[version].cidrs

\* a live unblock gives remove_ufw_rule the two CIDRs a block gave to
\* apply_ufw_rule
C15_Witness ==
    /\ action = "unblock" /\ pc = "ufw_remove" /\ ~dry_run
    /\ ufw_passed[version].given
    /\ ufw_passed[version].lines = files[version].lines
    /\ Len(cidr_list) >= 2
    /\ todo = cidr_list


\* ---- the order of the commands of a run
\* the commands that carry the name of a set
HasName(c) ==
    \/ c[1] = "ipset"
    \/ c[1] \in {BIN_IPTABLES, BIN_IP6TABLES}
    \/ c[1] = "firewall-cmd" /\ c[2] # "--reload"

VersionIndex(n) == IF n[3] = "v4" THEN 1 ELSE 2

Largest(S) == CHOOSE x \in S : \A y \in S : y <= x

Smallest(S) == CHOOSE x \in S : \A y \in S : x <= y

\* the version a command of the trace works for: that of the set it names;
\* for firewall-cmd --reload and the ufw commands, in a block the version of
\* the set named last before them, in an unblock that of the set named
\* next after them
VersionAt(T, k) ==
    IF HasName(T[k]) THEN VersionIndex(T[k][3])
    ELSE IF action = "block"
    THEN LET js == {j \in 1 .. k - 1 : HasName(T[j])}
         IN  IF js = {} THEN 1 ELSE VersionIndex(T[Largest(js)][3])
    ELSE LET js == {j \in k + 1 .. Len(T) : HasName(T[j])}
         IN  IF js = {} THEN Len(Versions) ELSE VersionIndex(T[Smallest(js)][3])

\* the place of a command in the iteration of its version
Phase(c) ==
    IF action = "block"
    THEN CASE c[1] = "ipset" /\ c[2] = "destroy" -> 1
           [] c[1] = "ipset" /\ c[2] = "create"  -> 2
           [] c[1] = "ipset" /\ c[2] = "flush"   -> 3
           [] c[1] = "ipset" /\ c[2] = "add"     -> 4
           [] OTHER -> 5
    ELSE IF c[1] = "ipset" /\ c[2] = "destroy" THEN 2 ELSE 1

\* v4 before v6 and, within a version, the phases in their order
Ordered(T) ==
    \A j, k \in 1 .. Len(T) :
        j < k => \/ VersionAt(T, j) < VersionAt(T, k)
                 \/ /\ VersionAt(T, j) = VersionAt(T, k)
                    /\ Phase(T[j]) <= Phase(T[k])

\* command c was given before place k
Before(T, k, c) == \E j \in 1 .. k - 1 : T[j] = c

\* the commands of the run: issued by a live run, named by the lines of a
\* dry run of asn_block.py
RunCommands ==
    IF dry_run /\ script = "asn_block" THEN NamedCommands ELSE MutatingIssued

\* C16: in every block or unblock run the commands come in this order: all
\* of v4 before all of v6; in a block, within a version, the destroy of the
\* reset, the create, the adds and then the rule application, every add
\* and every rule insertion after the create of its set; in an unblock,
\* within a version, the rule removal and then the destroy of the set, and
\* with the iptables backend every destroy after the -D of its rule.
C16_CommandOrder ==
    action \in {"block", "unblock"} =>
        /\ Ordered(MutatingIssued)
        /\ Ordered(NamedCommands)
        /\ LET T == RunCommands
           IN  \A k \in 1 .. Len(T) :
                   /\ (action = "block" /\ HasName(T[k]) /\ T[k][2] \in {"add", "-I"})
                          => Before(T, k, <<"ipset", "create", T[k][3]>>)
                   /\ (action = "unblock" /\ T[k][2] = "destroy"
                         /\ (firewall = "iptables" \/ script = "iptables_asn_block"))
                          => Before(T, k, <<IF T[k][3][3] = "v4" THEN BIN_IPTABLES
                                            ELSE BIN_IP6TABLES, "-D", T[k][3]>>)

\* a live block of asn_block.py has returned: it had to destroy the v4 set
\* of an earlier block, and it applied a rule for each version
C16_Witness ==
    /\ action = "block" /\ ~dry_run /\ pc = "Done" /\ script = "asn_block"
    /\ firewall \in {"iptables", "firewalld", "ufw"}
    /\ fw0.ipsets[ipset_name(asn, "v4")].exists
    /\ \E j, k \in 1 .. Len(MutatingIssued) :
           /\ j < k
           /\ MutatingIssued[j][2] = "add"
           /\ MutatingIssued[j][3] = ipset_name(asn, "v4")
           /\ MutatingIssued[k] = <<"ipset", "create", ipset_name(asn, "v6")>>


\* ---- reset of the named sets
\* the CIDR blocks of the current dataset of a version
CurrentBlocks(v) ==
    LET cs == dataset_cidrs(script, v, asn) IN {cs[k] : k \in 1 .. Len(cs)}

\* C17: when a live block run has returned (no command having failed for a
\* reason outside the machine), each of the two sets of the ASN exists and
\* its members are exactly the CIDR blocks of the current dataset of its
\* version, whatever the set held when the run began.
C17_BlockResetsSet ==
    (action = "block" /\ ~dry_run /\ pc = "Done" /\ nfail = 0)
        => \A v \in {"v4", "v6"} :
               /\ fw.ipsets[ipset_name(asn, v)].exists
               /\ fw.ipsets[ipset_name(asn, v)].members = CurrentBlocks(v)

====
